---- MODULE Spec2Model ----
(***************************************************************************)
(* Distance-vector (RIP style) routing simulation of src/main.py:          *)
(* class Node (routing table, neighbor costs, relaxation), class Network   *)
(* (addNode, connectNodes, simulateIteration, simulateFailure) and the     *)
(* two convergence loops of the script.                                    *)
(***************************************************************************)
EXTENDS Integers, Sequences, FiniteSets, TLC

VARIABLES nodeOrder,     \* keys of Network.nodes, in dict insertion order
          routingTable,  \* node name -> (destination -> <<cost, nextHop>>)
          neighbors,     \* node name -> sequence of [name, cost], dict order
          pc,            \* position of the caller (script or API client)
          iteration,     \* rounds run by the current convergence loop
          updated,       \* return value of the last simulateIteration
          report,        \* what the current convergence loop printed
          hist           \* bookkeeping of the calls made so far

vars == <<nodeOrder, routingTable, neighbors, pc, iteration, updated, report, hist>>

\* ------------------------------------------------------------------ bounds
NameSeq == <<"A", "B", "C", "D">>
Names == {NameSeq[i] : i \in 1..Len(NameSeq)}
ApiNames == {"A", "B", "C"}
ApiCosts == {1}
StaticCosts == {0, 1, 3}
MainCosts == {-1, 1, 4}
MaxAdd == 3
MaxConnect == 2
MaxRounds == 2
MaxFail == 1
MaxLinks == 3
MaxCalls == 3
RelaxCosts == {0, 2}
MaxRelaxLinks == 2
MaxSetupRounds == 1
MaxUpdates == 3

\* ------------------------------------------------------- program constants
Inf == 1000000000
None == "None"
maxRounds == 100
lastIndex == 99

\* float('inf') arithmetic: inf + x = inf
Plus(a, b) == IF a = Inf \/ b = Inf THEN Inf ELSE a + b

\* -------------------------------------------------- dict helpers (ordered)
Keys(nb) == {nb[i].name : i \in 1..Len(nb)}
Get(nb, k) == nb[CHOOSE i \in 1..Len(nb) : nb[i].name = k].cost
\* dict assignment: an existing key keeps its position, a new key is appended
Put(nb, k, c) ==
    IF k \in Keys(nb)
    THEN [i \in 1..Len(nb) |-> IF nb[i].name = k THEN [name |-> k, cost |-> c] ELSE nb[i]]
    ELSE Append(nb, [name |-> k, cost |-> c])
\* routingTable[dest] = entry
TPut(t, d, e) == [x \in DOMAIN t \cup {d} |-> IF x = d THEN e ELSE t[x]]
\* routingTable.get(destination, (inf, None))
TGet(t, d) == IF d \in DOMAIN t THEN t[d] ELSE <<Inf, None>>

\* ------------------------------------------------------------------- Node
\* Node.__init__
NewTable(name) == [x \in {name} |-> <<0, name>>]

\* variant: the link cost is left out of the sum
NewCostNoLink(linkCost, neighborCost) == neighborCost
\* new_cost = self.neighbors[neighborName] + neighborCost
NewCost(linkCost, neighborCost) == Plus(linkCost, neighborCost)

\* variant: a tie replaces the entry too
ImprovedOrEqual(self, table, linkCost, neighborTable) ==
    {d \in DOMAIN neighborTable \ {self} :
        NewCost(linkCost, neighborTable[d][1]) <= TGet(table, d)[1]}
\* variant: any different cost replaces the entry
ImprovedAnyChange(self, table, linkCost, neighborTable) ==
    {d \in DOMAIN neighborTable \ {self} :
        NewCost(linkCost, neighborTable[d][1]) # TGet(table, d)[1]}
\* Node.updateRoutingTable: the destinations the call replaces or inserts
Improved(self, table, linkCost, neighborTable) ==
    {d \in DOMAIN neighborTable \ {self} :
        NewCost(linkCost, neighborTable[d][1]) < TGet(table, d)[1]}

\* Node.updateRoutingTable: the table of `self` after the call
UpdateTable(self, table, linkCost, neighborName, neighborTable) ==
    LET imp == Improved(self, table, linkCost, neighborTable) IN
    [d \in DOMAIN table \cup imp |->
        IF d \in imp
        THEN <<NewCost(linkCost, neighborTable[d][1]), neighborName>>
        ELSE table[d]]

\* Node.updateRoutingTable: its return value
UpdateFlag(self, table, linkCost, neighborName, neighborTable) ==
    Improved(self, table, linkCost, neighborTable) # {}

\* Node.shareTable: the live table, not a copy
shareTable(rt, name) == rt[name]

\* ---------------------------------------------------------------- Network
Present == {nodeOrder[i] : i \in 1..Len(nodeOrder)}

\* variant: the flag is assigned, not accumulated
AssignFlag(flag, result) == result
\* updated |= node.updateRoutingTable(...)
OrFlag(flag, result) == flag \/ result

\* inner loop of simulateIteration for one node, from neighbor index j on;
\* st = [rt |-> all tables, upd |-> flag]
RECURSIVE NeighborLoop(_, _, _, _)
NeighborLoop(st, nodeName, nb, j) ==
    IF j > Len(nb) THEN st
    ELSE LET m == nb[j].name IN
         IF m \in DOMAIN st.rt
         THEN LET shared == shareTable(st.rt, m)
                  t2 == UpdateTable(nodeName, st.rt[nodeName], nb[j].cost, m, shared)
                  u2 == UpdateFlag(nodeName, st.rt[nodeName], nb[j].cost, m, shared)
              IN NeighborLoop([rt |-> [st.rt EXCEPT ![nodeName] = t2],
                               upd |-> OrFlag(st.upd, u2)], nodeName, nb, j + 1)
         ELSE NeighborLoop(st, nodeName, nb, j + 1)

\* outer loop of simulateIteration, from node index i on
RECURSIVE NodeLoop(_, _, _, _)
NodeLoop(st, order, nbs, i) ==
    IF i > Len(order) THEN st
    ELSE NodeLoop(NeighborLoop(st, order[i], nbs[order[i]], 1), order, nbs, i + 1)

\* Network.simulateIteration: [rt |-> tables after the round, upd |-> result]
simulateIteration(order, rt, nbs) == NodeLoop([rt |-> rt, upd |-> FALSE], order, nbs, 1)

\* Network.addNode: self.nodes[name] = Node(name); an existing key keeps its
\* place in the dict and gets a fresh Node
addNodeOrder(order, name) ==
    IF \E i \in 1..Len(order) : order[i] = name THEN order ELSE Append(order, name)
addNodeTables(rt, name) ==
    [x \in DOMAIN rt \cup {name} |-> IF x = name THEN NewTable(name) ELSE rt[x]]
addNodeNeighbors(nbs, name) ==
    [x \in DOMAIN nbs \cup {name} |-> IF x = name THEN <<>> ELSE nbs[x]]

\* variant: only node1's table gets the direct route
connectTablesOneWay(rt, node1, node2, cost) ==
    IF node1 \in DOMAIN rt /\ node2 \in DOMAIN rt
    THEN [rt EXCEPT ![node1] = TPut(@, node2, <<cost, node2>>)]
    ELSE rt
\* Network.connectNodes: the four assignments, in order
connectNeighbors(nbs, node1, node2, cost) ==
    IF node1 \in DOMAIN nbs /\ node2 \in DOMAIN nbs
    THEN LET n1 == [nbs EXCEPT ![node1] = Put(@, node2, cost)]
         IN [n1 EXCEPT ![node2] = Put(@, node1, cost)]
    ELSE nbs
connectTables(rt, node1, node2, cost) ==
    IF node1 \in DOMAIN rt /\ node2 \in DOMAIN rt
    THEN LET r1 == [rt EXCEPT ![node1] = TPut(@, node2, <<cost, node2>>)]
         IN [r1 EXCEPT ![node2] = TPut(@, node1, <<cost, node1>>)]
    ELSE rt

\* Node.disconnectNeighbor on node `self`
disconnectNeighborCosts(nbs, self, neighborName) ==
    IF neighborName \in Keys(nbs[self])
    THEN [nbs EXCEPT ![self] = Put(@, neighborName, Inf)]
    ELSE nbs
\* variant: every route through the lost neighbor is reset as well
disconnectNeighborTablePoisoned(rt, nbs, self, neighborName) ==
    IF neighborName \in Keys(nbs[self])
    THEN [rt EXCEPT ![self] =
             [d \in DOMAIN @ \cup {neighborName} |->
                 IF d = neighborName \/ @[d][2] = neighborName
                 THEN <<Inf, None>> ELSE @[d]]]
    ELSE rt
\* variant: the route to the lost neighbor is kept
disconnectNeighborTableKept(rt, nbs, self, neighborName) == rt
disconnectNeighborTable(rt, nbs, self, neighborName) ==
    IF neighborName \in Keys(nbs[self])
    THEN [rt EXCEPT ![self] = TPut(@, neighborName, <<Inf, None>>)]
    ELSE rt

\* Network.simulateFailure: early return when a name is unknown, otherwise
\* disconnectNeighbor on node1 and then on node2
failureNeighbors(nbs, node1, node2) ==
    IF node1 \notin DOMAIN nbs \/ node2 \notin DOMAIN nbs THEN nbs
    ELSE disconnectNeighborCosts(disconnectNeighborCosts(nbs, node1, node2), node2, node1)
failureTables(rt, nbs, node1, node2) ==
    IF node1 \notin DOMAIN nbs \/ node2 \notin DOMAIN nbs THEN rt
    ELSE LET r1 == disconnectNeighborTable(rt, nbs, node1, node2)
             n1 == disconnectNeighborCosts(nbs, node1, node2)
         IN disconnectNeighborTable(r1, n1, node2, node1)

\* Network.simulateFailure: what the caller gets back; `return` after the
\* message and falling off the end both give None
failureResult(nbs, node1, node2) ==
    IF node1 \notin DOMAIN nbs \/ node2 \notin DOMAIN nbs THEN None ELSE None

\* a Python bool as the caller sees it
BoolResult(b) == IF b THEN "True" ELSE "False"

\* ------------------------------------------------- calls, as state changes
\* call: the arguments of the last call when it was simulateFailure or
\* updateRoutingTable; ret: what the last call returned
\* quiet: the number of rounds in a row, with no other call in between, that
\* returned false
Hist0 == [adds |-> 0, connects |-> 0, rounds |-> 0, fails |-> 0,
          last |-> "init", lateBuild |-> FALSE, selfLink |-> FALSE,
          negative |-> FALSE, links |-> <<>>, climbs |-> {}, quiet |-> 0,
          call |-> <<>>, ret |-> None, updates |-> 0]

\* bookkeeping: the routes <<node, destination>> whose cost went from one
\* finite value to a higher finite value between two table states
Climbed(before, after) ==
    {p \in (DOMAIN before) \X Names :
        /\ p[2] \in DOMAIN before[p[1]] /\ p[2] \in DOMAIN after[p[1]]
        /\ before[p[1]][p[2]][1] < after[p[1]][p[2]][1]
        /\ after[p[1]][p[2]][1] < Inf}

CallAddNode(name) ==
    /\ nodeOrder' = addNodeOrder(nodeOrder, name)
    /\ routingTable' = addNodeTables(routingTable, name)
    /\ neighbors' = addNodeNeighbors(neighbors, name)
    /\ hist' = [hist EXCEPT !.adds = @ + 1, !.last = "addNode", !.quiet = 0,
                            !.call = <<>>, !.ret = None,
                            !.lateBuild = @ \/ hist.rounds > 0]

CallConnectNodes(node1, node2, cost) ==
    /\ neighbors' = connectNeighbors(neighbors, node1, node2, cost)
    /\ routingTable' = connectTables(routingTable, node1, node2, cost)
    /\ UNCHANGED nodeOrder
    /\ hist' = [hist EXCEPT !.connects = @ + 1, !.last = "connectNodes", !.quiet = 0,
                            !.call = <<>>, !.ret = None,
                            !.lateBuild = @ \/ hist.rounds > 0,
                            !.selfLink = @ \/ (node1 = node2 /\ node1 \in Present),
                            !.negative = @ \/ cost < 0]

CallSimulateIteration ==
    LET r == simulateIteration(nodeOrder, routingTable, neighbors) IN
    /\ routingTable' = r.rt
    /\ updated' = r.upd
    /\ UNCHANGED <<nodeOrder, neighbors>>
    /\ hist' = [hist EXCEPT !.rounds = @ + 1, !.last = "simulateIteration",
                            !.climbs = @ \cup Climbed(routingTable, r.rt),
                            !.quiet = IF r.upd THEN 0 ELSE @ + 1,
                            !.call = <<>>, !.ret = BoolResult(r.upd)]

CallSimulateFailure(node1, node2) ==
    /\ neighbors' = failureNeighbors(neighbors, node1, node2)
    /\ routingTable' = failureTables(routingTable, neighbors, node1, node2)
    /\ UNCHANGED nodeOrder
    /\ hist' = [hist EXCEPT !.fails = @ + 1, !.last = "simulateFailure", !.climbs = {},
                            !.quiet = 0, !.call = <<node1, node2>>,
                            !.ret = failureResult(neighbors, node1, node2)]

\* connectNodes(b, a, c) and simulateFailure(b, a) change the two nodes exactly
\* as connectNodes(a, b, c) and simulateFailure(a, b) do, so the callers below
\* pass each pair of names in one order only
\* node.updateRoutingTable(neighborName, neighbor.shareTable()), called on
\* its own for one node and one of the keys of its neighbor map
CallUpdateRoutingTable(self, neighborName) ==
    LET linkCost == Get(neighbors[self], neighborName)
        shared == shareTable(routingTable, neighborName)
        table == routingTable[self]
    IN
    /\ routingTable' = [routingTable EXCEPT
                            ![self] = UpdateTable(self, table, linkCost, neighborName, shared)]
    /\ hist' = [hist EXCEPT !.updates = @ + 1, !.last = "updateRoutingTable",
                            !.quiet = 0, !.call = <<self, neighborName>>,
                            !.ret = BoolResult(UpdateFlag(self, table, linkCost,
                                                          neighborName, shared))]
    /\ UNCHANGED <<nodeOrder, neighbors>>

Index(name) == CHOOSE i \in 1..Len(NameSeq) : NameSeq[i] = name
Ordered(node1, node2) == Index(node1) <= Index(node2)

\* ------------------------------------------ Spec: any sequence of API calls
Init ==
    /\ nodeOrder = <<>>
    /\ routingTable = <<>>
    /\ neighbors = <<>>
    /\ pc = "api"
    /\ iteration = 0
    /\ updated = FALSE
    /\ report = "none"
    /\ hist = Hist0

\* a name is either one already added or the next unused one: which unused
\* name a caller picks makes no difference to any later call
AddNode ==
    /\ pc = "api" /\ hist.adds < MaxAdd
    /\ \E name \in ApiNames :
          /\ name \in Present \/ name = NameSeq[Len(nodeOrder) + 1]
          /\ CallAddNode(name)
    /\ UNCHANGED <<pc, iteration, updated, report>>

ConnectNodes ==
    /\ pc = "api" /\ hist.connects < MaxConnect
    /\ \E node1 \in ApiNames, node2 \in ApiNames, cost \in ApiCosts :
          Ordered(node1, node2) /\ CallConnectNodes(node1, node2, cost)
    /\ UNCHANGED <<pc, iteration, updated, report>>

RunIteration ==
    /\ pc = "api" /\ hist.rounds < MaxRounds
    /\ CallSimulateIteration
    /\ UNCHANGED <<pc, iteration, report>>

SimulateFailure ==
    /\ pc = "api" /\ hist.fails < MaxFail
    /\ \E node1 \in ApiNames, node2 \in ApiNames :
          Ordered(node1, node2) /\ CallSimulateFailure(node1, node2)
    /\ UNCHANGED <<pc, iteration, updated, report>>

Next == AddNode \/ ConnectNodes \/ RunIteration \/ SimulateFailure

Spec == Init /\ [][Next]_vars

\* ------------------------------------------------- the convergence loops
\* variant: the cap is compared with the number of rounds, not the last index
LoopReportOffByOne(upd, index) ==
    IF ~upd THEN "converged"
    ELSE IF index = maxRounds THEN "not converged"
    ELSE "none"
\* what one pass of the loop body prints after its round: `index` is the loop
\* variable of `for iteration in range(100)`
LoopReport(upd, index) ==
    IF ~upd THEN "converged"
    ELSE IF index = lastIndex THEN "not converged"
    ELSE "none"

\* one pass of the loop body; the loop is left by `break` or by exhausting
\* range(100), and control then reaches `after`
LoopBody(here, after) ==
    /\ iteration < maxRounds
    /\ CallSimulateIteration
    /\ iteration' = iteration + 1
    /\ report' = LoopReport(updated', iteration)
    /\ pc' = IF ~updated' \/ iteration + 1 = maxRounds THEN after ELSE here

\* ------------------- SpecStatic: a topology is built, then one loop is run
InitStatic ==
    /\ nodeOrder = <<>>
    /\ routingTable = <<>>
    /\ neighbors = <<>>
    /\ pc = "build"
    /\ iteration = 0
    /\ updated = FALSE
    /\ report = "none"
    /\ hist = Hist0

StaticAddNode ==
    /\ pc = "build" /\ hist.connects = 0
    /\ Len(nodeOrder) < Len(NameSeq)
    /\ CallAddNode(NameSeq[Len(nodeOrder) + 1])
    /\ UNCHANGED <<pc, iteration, updated, report>>

StaticConnectNodes ==
    /\ pc = "build" /\ hist.connects < MaxLinks
    /\ \E node1 \in Present, node2 \in Present, cost \in StaticCosts :
          /\ node1 # node2 /\ Ordered(node1, node2)
          /\ CallConnectNodes(node1, node2, cost)
    /\ UNCHANGED <<pc, iteration, updated, report>>

StaticLoop ==
    /\ pc \in {"build", "loop"}
    /\ LoopBody("loop", "done")
    /\ UNCHANGED <<nodeOrder, neighbors>>

NextStatic == StaticAddNode \/ StaticConnectNodes \/ StaticLoop

SpecStatic == InitStatic /\ [][NextStatic]_vars

\* ---------------- SpecMain: the script, its three link costs being inputs
InitMain ==
    /\ nodeOrder = <<>>
    /\ routingTable = <<>>
    /\ neighbors = <<>>
    /\ pc = "start"
    /\ iteration = 0
    /\ updated = FALSE
    /\ report = "none"
    /\ hist = Hist0

\* network = Network(); addNode A, B, C; connectNodes A-B, B-C, A-C
BuildMesh ==
    \E cAB \in MainCosts, cBC \in MainCosts, cAC \in MainCosts :
        LET o1 == addNodeOrder(nodeOrder, "A")
            o2 == addNodeOrder(o1, "B")
            o3 == addNodeOrder(o2, "C")
            r0 == addNodeTables(addNodeTables(addNodeTables(routingTable, "A"), "B"), "C")
            n0 == addNodeNeighbors(addNodeNeighbors(addNodeNeighbors(neighbors, "A"), "B"), "C")
            n1 == connectNeighbors(n0, "A", "B", cAB)
            r1 == connectTables(r0, "A", "B", cAB)
            n2 == connectNeighbors(n1, "B", "C", cBC)
            r2 == connectTables(r1, "B", "C", cBC)
            n3 == connectNeighbors(n2, "A", "C", cAC)
            r3 == connectTables(r2, "A", "C", cAC)
        IN /\ nodeOrder' = o3
           /\ routingTable' = r3
           /\ neighbors' = n3
           /\ hist' = [hist EXCEPT !.adds = 3, !.connects = 3, !.last = "connectNodes",
                                   !.links = <<cAB, cBC, cAC>>,
                                   !.negative = cAB < 0 \/ cBC < 0 \/ cAC < 0]

MainBuild ==
    /\ pc = "start"
    /\ BuildMesh
    /\ pc' = "loop1"
    /\ UNCHANGED <<iteration, updated, report>>

\* the initial convergence loop
MainLoop1 ==
    /\ pc = "loop1"
    /\ LoopBody("loop1", "fail")
    /\ UNCHANGED <<nodeOrder, neighbors>>

\* network.simulateFailure('A', 'B'); the second loop starts from round 0
MainFailure ==
    /\ pc = "fail"
    /\ CallSimulateFailure("A", "B")
    /\ pc' = "loop2"
    /\ iteration' = 0
    /\ report' = "none"
    /\ UNCHANGED updated

\* the convergence loop after the failure
MainLoop2 ==
    /\ pc = "loop2"
    /\ LoopBody("loop2", "end")
    /\ UNCHANGED <<nodeOrder, neighbors>>

NextMain == MainBuild \/ MainLoop1 \/ MainFailure \/ MainLoop2

SpecMain == InitMain /\ [][NextMain]_vars

\* ---- SpecClient: a caller builds the three-node mesh and then calls
\* simulateIteration and simulateFailure in any order
InitClient ==
    /\ nodeOrder = <<>>
    /\ routingTable = <<>>
    /\ neighbors = <<>>
    /\ pc = "client"
    /\ iteration = 0
    /\ updated = FALSE
    /\ report = "none"
    /\ hist = Hist0

ClientBuild ==
    /\ pc = "client"
    /\ BuildMesh
    /\ pc' = "calls"
    /\ UNCHANGED <<iteration, updated, report>>

ClientIteration ==
    /\ pc = "calls" /\ hist.rounds < MaxCalls
    /\ CallSimulateIteration
    /\ UNCHANGED <<pc, iteration, report>>

ClientFailure ==
    /\ pc = "calls" /\ hist.fails < MaxFail
    /\ \E node1 \in ApiNames, node2 \in ApiNames :
          Ordered(node1, node2) /\ CallSimulateFailure(node1, node2)
    /\ UNCHANGED <<pc, iteration, updated, report>>

NextClient == ClientBuild \/ ClientIteration \/ ClientFailure

SpecClient == InitClient /\ [][NextClient]_vars

\* ---- SpecRelax: a caller brings the network into some state by any calls
\* (links of non-negative cost, rounds, failures) and then runs the
\* convergence loop of the script on it
InitRelax ==
    /\ nodeOrder = <<>>
    /\ routingTable = <<>>
    /\ neighbors = <<>>
    /\ pc = "setup"
    /\ iteration = 0
    /\ updated = FALSE
    /\ report = "none"
    /\ hist = Hist0

RelaxAddNode ==
    /\ pc = "setup" /\ Len(nodeOrder) < Cardinality(ApiNames)
    /\ CallAddNode(NameSeq[Len(nodeOrder) + 1])
    /\ UNCHANGED <<pc, iteration, updated, report>>

RelaxConnectNodes ==
    /\ pc = "setup" /\ hist.connects < MaxRelaxLinks
    /\ \E node1 \in Present, node2 \in Present, cost \in RelaxCosts :
          /\ node1 # node2 /\ Ordered(node1, node2)
          /\ CallConnectNodes(node1, node2, cost)
    /\ UNCHANGED <<pc, iteration, updated, report>>

RelaxIteration ==
    /\ pc = "setup" /\ hist.rounds < MaxSetupRounds
    /\ CallSimulateIteration
    /\ UNCHANGED <<pc, iteration, report>>

RelaxFailure ==
    /\ pc = "setup" /\ hist.fails < MaxFail
    /\ \E node1 \in Present, node2 \in Present :
          /\ node1 # node2 /\ Ordered(node1, node2)
          /\ CallSimulateFailure(node1, node2)
    /\ UNCHANGED <<pc, iteration, updated, report>>

RelaxLoop ==
    /\ pc \in {"setup", "loop"}
    /\ LoopBody("loop", "done")
    /\ UNCHANGED <<nodeOrder, neighbors>>

NextRelax ==
    RelaxAddNode \/ RelaxConnectNodes \/ RelaxIteration \/ RelaxFailure \/ RelaxLoop

SpecRelax == InitRelax /\ [][NextRelax]_vars

\* a pass of the loop, seen on the loop counter alone: RelaxLoop is the only
\* action that advances it, and it can do so exactly in these states
LoopPass ==
    /\ pc \in {"setup", "loop"} /\ iteration < maxRounds
    /\ iteration' = iteration + 1

\* the loop is a sequential `for`: once entered, or once the caller has no
\* other call left to make, its next pass is taken
SpecRelaxFair == SpecRelax /\ WF_iteration(LoopPass)

\* ---- SpecUpdate: the same free calls, with single updateRoutingTable calls
\* in the place of whole rounds
NodeUpdate ==
    /\ pc = "setup" /\ hist.updates < MaxUpdates
    /\ \E self \in Present : \E neighborName \in Keys(neighbors[self]) :
          CallUpdateRoutingTable(self, neighborName)
    /\ UNCHANGED <<pc, iteration, updated, report>>

NextUpdate == RelaxAddNode \/ RelaxConnectNodes \/ RelaxFailure \/ NodeUpdate

SpecUpdate == InitRelax /\ [][NextUpdate]_vars

\* ===================================================== checked properties
Cost(n, d) == TGet(routingTable[n], d)[1]
Hop(n, d) == TGet(routingTable[n], d)[2]
N == Len(nodeOrder)

\* cost of the direct link m - b as node m holds it (+inf when there is none)
LinkCost(m, b) == IF b \in Keys(neighbors[m]) THEN Get(neighbors[m], b) ELSE Inf

Min(S) == CHOOSE x \in S : \A y \in S : x <= y

\* least cost of a path of at most k links, for every pair of nodes (the
\* table of each level is built once: f @@ <<>> is f, tabulated)
RECURSIVE PathCost(_)
PathCost(k) ==
    IF k = 0 THEN [p \in Present \X Present |-> IF p[1] = p[2] THEN 0 ELSE Inf]
    ELSE LET D == PathCost(k - 1) @@ <<>> IN
         [p \in Present \X Present |->
             Min({D[p]} \cup {Plus(D[<<p[1], m>>], LinkCost(m, p[2])) : m \in Present})]

\* shortest-path distances in the link-cost graph (costs are non-negative)
TrueDist == PathCost(N - 1) @@ <<>>

Connected == LET D == TrueDist IN \A p \in Present \X Present : D[p] < Inf
NonNegative == \A a \in Present : \A i \in 1..Len(neighbors[a]) : neighbors[a][i].cost >= 0

\* reference round: every update reads the tables as they stood before the round
RECURSIVE SnapshotNeighborLoop(_, _, _, _, _)
SnapshotNeighborLoop(table, snapshot, nodeName, nb, j) ==
    IF j > Len(nb) THEN table
    ELSE IF nb[j].name \in DOMAIN snapshot
         THEN SnapshotNeighborLoop(
                  UpdateTable(nodeName, table, nb[j].cost, nb[j].name, snapshot[nb[j].name]),
                  snapshot, nodeName, nb, j + 1)
         ELSE SnapshotNeighborLoop(table, snapshot, nodeName, nb, j + 1)
SnapshotIteration(rt, nbs) ==
    [n \in DOMAIN rt |-> SnapshotNeighborLoop(rt[n], rt, n, nbs[n], 1)]

\* the step is a call of simulateIteration
IsRound == hist'.rounds = hist.rounds + 1
GivenTopology == hist.links = <<1, 1, 4>>
IsFailure == hist'.fails = hist.fails + 1
IsAdd == hist'.adds = hist.adds + 1
IsUpdate == hist'.updates = hist.updates + 1

\* C1: every node's table maps the node itself to cost 0 with itself as next
\* hop, in every state any sequence of calls reaches.
C1_SelfRoute ==
    \A n \in Present : n \in DOMAIN routingTable[n] /\ routingTable[n][n] = <<0, n>>

\* C2: on a connected topology of N >= 2 nodes with non-negative costs, built
\* before the first round and never failed, the loop stops with "converged"
\* after at most N-1 rounds, the round that returns false included.
C2_ConvergenceBound ==
    (N >= 2 /\ hist.rounds >= 1 /\ hist.fails = 0 /\ ~hist.lateBuild
        /\ NonNegative /\ Connected) =>
        /\ iteration <= N - 1
        /\ iteration = N - 1 => pc = "done"
        /\ pc = "done" => report = "converged"
C2_Witness ==
    /\ N = 4 /\ pc = "done" /\ report = "converged" /\ iteration = N - 1 /\ Connected

\* C3: on such a topology, once a round has returned false every table holds,
\* for every other node, the true shortest-path distance to it.
C3_ShortestPaths ==
    (N >= 2 /\ hist.last = "simulateIteration" /\ ~updated
        /\ hist.fails = 0 /\ ~hist.lateBuild /\ NonNegative /\ Connected) =>
        LET D == TrueDist IN \A n \in Present : \A d \in Present \ {n} : Cost(n, d) = D[<<n, d>>]
C3_Witness ==
    /\ N >= 3 /\ hist.last = "simulateIteration" /\ ~updated /\ Connected
    /\ \E n \in Present : \E d \in Present \ {n} :
          Cost(n, d) < LinkCost(n, d) /\ LinkCost(n, d) < Inf /\ Hop(n, d) # d

\* C4 (as claimed): on A-B=1, B-C=1, A-C=4, after convergence, the failure of
\* A-B and re-convergence, A reaches B at cost 4 via C.
C4_Original ==
    (GivenTopology /\ pc = "end") =>
        report = "converged" /\ routingTable["A"]["B"] = <<4, "C">>
\* C4 (amended): the loop after the failure stabilizes within the round cap
\* and A reaches B at cost 5 via C (A-C = 4 plus C-B = 1).
C4_PostFailure ==
    (GivenTopology /\ pc = "end") =>
        report = "converged" /\ routingTable["A"]["B"] = <<5, "C">>
C4_Witness ==
    GivenTopology /\ pc = "end" /\ hist.fails = 1 /\ LinkCost("A", "B") = Inf

\* C5 (as claimed): after the failure of A-B the cost of A to B and of B to A
\* climbs through at least two finite values before the tables stop changing.
C5_Original ==
    (GivenTopology /\ pc = "end") =>
        <<"A", "B">> \in hist.climbs /\ <<"B", "A">> \in hist.climbs
\* C5 (amended): after the failure of A-B no cost ever climbs from one round
\* to the next; A to B and B to A go from +inf to a single finite value (5 and
\* 3) and keep it until the tables stop changing.
C5_NoClimb ==
    (GivenTopology /\ pc \in {"loop2", "end"}) =>
        /\ hist.climbs = {}
        /\ Cost("A", "B") = (IF iteration = 0 THEN Inf ELSE 5)
        /\ Cost("B", "A") = (IF iteration = 0 THEN Inf ELSE 3)
C5_Witness ==
    GivenTopology /\ pc = "end" /\ iteration = 2 /\ Cost("A", "B") = 5 /\ Cost("B", "A") = 3

\* C6: the tables after a round are those of the reference round that reads
\* every neighbor's table as it stood at the start of the round.
C6_SynchronousRounds ==
    [][IsRound => routingTable' = SnapshotIteration(routingTable, neighbors)]_vars

\* C7: with no failure injected and nothing built after the first round, a
\* round never raises the cost of any destination in any table (an unknown
\* destination counting as +inf).
C7_NonIncrease ==
    [][(IsRound /\ hist.fails = 0 /\ ~hist.lateBuild) =>
          \A n \in Present, d \in Names :
              TGet(routingTable'[n], d)[1] <= TGet(routingTable[n], d)[1]]_vars
C7_Witness ==
    /\ hist.last = "simulateIteration" /\ updated /\ hist.fails = 0 /\ ~hist.lateBuild
    /\ \E n \in Present, d \in Present : Hop(n, d) \notin {d, None}

\* C8: once a round has returned false, the next round with no call in
\* between also returns false and leaves every table as it was.
C8_Idempotence ==
    [][(IsRound /\ hist.last = "simulateIteration" /\ ~updated) =>
          (~updated' /\ routingTable' = routingTable)]_vars
C8_Witness ==
    /\ hist.quiet >= 2 /\ hist.rounds >= 3
    /\ \E n \in Present, d \in Present : Hop(n, d) \notin {d, None}

\* C9: on A-B=1, B-C=1, A-C=4 the initial loop ends converged with A to B at
\* cost 1 via B, A to C at 2 via B, B to C at 1 via C and C to A at 2 via B.
C9_PreFailure ==
    (GivenTopology /\ pc = "fail") =>
        /\ report = "converged"
        /\ routingTable["A"]["B"] = <<1, "B">>
        /\ routingTable["A"]["C"] = <<2, "B">>
        /\ routingTable["B"]["C"] = <<1, "C">>
        /\ routingTable["C"]["A"] = <<2, "B">>
C9_Witness ==
    GivenTopology /\ pc = "fail" /\ hist.fails = 0 /\ ~updated

\* C10: a loop never runs more than maxRounds rounds; it reports "not
\* converged" exactly when round maxRounds returned true, "converged" exactly
\* when a round returned false, and it has stopped as soon as it reports.
C10_RoundCap ==
    /\ iteration <= maxRounds
    /\ report = "not converged" <=> (iteration = maxRounds /\ updated)
    /\ report = "converged" <=> (iteration >= 1 /\ ~updated)
    /\ pc \in {"loop1", "loop2"} <=> (report = "none" /\ hist.adds > 0)
C10_Witness ==
    report = "not converged" /\ iteration = maxRounds /\ pc = "end" /\ updated

\* C11: simulateIteration returns True exactly when the routing table of at
\* least one node after the call differs from its table before the call.
C11_ReturnExact ==
    [][IsRound =>
          /\ hist'.ret \in {"True", "False"}
          /\ hist'.ret = "True" <=>
                 \E n \in Present : routingTable'[n] # routingTable[n]]_vars
C11_Witness ==
    /\ hist.last = "simulateIteration" /\ hist.ret = "False" /\ hist.rounds >= 2
    /\ \E n \in Present, d \in Present : Hop(n, d) \notin {n, d, None}

\* C12: simulateFailure on a name that is not a node of the network hands the
\* caller a result that differs from the result of a successful call, and
\* leaves every routing table and every neighbor map as it was.  A successful
\* call returns None.
C12_UnknownNodeError ==
    [][(IsFailure /\ ~(hist'.call[1] \in Present /\ hist'.call[2] \in Present)) =>
          /\ hist'.ret # None
          /\ routingTable' = routingTable
          /\ neighbors' = neighbors]_vars

\* C13: addNode of a name that is already a node is rejected with a
\* DuplicateNodeId error and leaves the routing table and the neighbor map of
\* the existing node unchanged.
C13_DuplicateRejected ==
    [][(IsAdd /\ nodeOrder' = nodeOrder) =>
          /\ hist'.ret = "DuplicateNodeId"
          /\ routingTable' = routingTable
          /\ neighbors' = neighbors]_vars

\* C14: with link costs that are never negative, also after a failure and on
\* a disconnected topology, repeated rounds end with a round that returns
\* False; every round that returns True lowers the cost of at least one entry
\* and raises none.
C14_Termination ==
    /\ [][(IsRound /\ updated') =>
             /\ \E n \in Present : \E d \in DOMAIN routingTable'[n] :
                    TGet(routingTable'[n], d)[1] < TGet(routingTable[n], d)[1]
             /\ \A n \in Present : \A d \in DOMAIN routingTable[n] :
                    TGet(routingTable'[n], d)[1] <= TGet(routingTable[n], d)[1]]_vars
    /\ <>(report = "converged")
    /\ [](report # "not converged")
C14_Witness ==
    /\ report = "converged" /\ iteration >= 2 /\ hist.fails >= 1
    /\ ~Connected /\ NonNegative

\* C15: updateRoutingTable(neighborName, neighborTable) on node self: for each
\* destination d # self of neighborTable the entry becomes
\* (neighbors[neighborName] + advertised cost, neighborName) exactly when that
\* sum is strictly below the current cost (+inf for an unknown d), and stays
\* as it was otherwise; the call returns True iff some entry was replaced; the
\* self entry, the other entries, the neighbor maps and the other tables
\* (the neighbor's included) are unchanged.
C15_RelaxationRule ==
    [][IsUpdate =>
          LET self == hist'.call[1]
              neighborName == hist'.call[2]
              link == Get(neighbors[self], neighborName)
              adv == routingTable[neighborName]
              old == routingTable[self]
              new == routingTable'[self]
              Cand(d) == IF link = Inf \/ adv[d][1] = Inf THEN Inf ELSE link + adv[d][1]
              Cur(d) == IF d \in DOMAIN old THEN old[d][1] ELSE Inf
              Better == {d \in DOMAIN adv \ {self} : Cand(d) < Cur(d)}
          IN
          /\ DOMAIN new = DOMAIN old \cup Better
          /\ \A d \in Better : new[d] = <<Cand(d), neighborName>>
          /\ \A d \in DOMAIN old \ Better : new[d] = old[d]
          /\ new[self] = old[self]
          /\ hist'.ret = "True" <=> Better # {}
          /\ hist'.ret = "False" <=> Better = {}
          /\ neighbors' = neighbors
          /\ \A x \in Present \ {self} : routingTable'[x] = routingTable[x]]_vars
C15_Witness ==
    /\ hist.last = "updateRoutingTable" /\ hist.ret = "True" /\ hist.updates >= 2
    /\ hist.fails >= 1
    /\ \E d \in Present : Hop(hist.call[1], d) = hist.call[2] /\ d # hist.call[2]

\* C16: simulateFailure(a, b) on two existing nodes a # b leaves a's cost to
\* neighbor b and b's cost to neighbor a at +inf and the entries a to b and
\* b to a at (+inf, None), whatever they held; every other entry (those whose
\* next hop is the lost neighbor included) and every other neighbor cost is
\* unchanged, and no round is run.
C16_FailureEffect ==
    [][(IsFailure /\ hist'.call[1] \in Present /\ hist'.call[2] \in Present
                  /\ hist'.call[1] # hist'.call[2]) =>
          LET a == hist'.call[1]
              b == hist'.call[2]
              pair == {<<a, b>>, <<b, a>>}
          IN
          /\ \A p \in pair :
                /\ p[2] \in Keys(neighbors'[p[1]])
                /\ Get(neighbors'[p[1]], p[2]) = Inf
                /\ p[2] \in DOMAIN routingTable'[p[1]]
                /\ routingTable'[p[1]][p[2]] = <<Inf, None>>
          /\ \A n \in Present :
                /\ DOMAIN routingTable[n] \subseteq DOMAIN routingTable'[n]
                /\ \A d \in DOMAIN routingTable'[n] : <<n, d>> \notin pair =>
                      /\ d \in DOMAIN routingTable[n]
                      /\ routingTable'[n][d] = routingTable[n][d]
                /\ Keys(neighbors[n]) \subseteq Keys(neighbors'[n])
                /\ \A m \in Keys(neighbors'[n]) : <<n, m>> \notin pair =>
                      /\ m \in Keys(neighbors[n])
                      /\ Get(neighbors'[n], m) = Get(neighbors[n], m)
          /\ hist'.rounds = hist.rounds /\ updated' = updated
          /\ nodeOrder' = nodeOrder]_vars

\* C17: in every reachable state, for all nodes a and b, b is a key of a's
\* neighbor map iff a is a key of b's, and then both hold the same cost.
C17_AdjacencySymmetry ==
    \A a \in Present : \A b \in Present :
        /\ b \in Keys(neighbors[a]) <=> a \in Keys(neighbors[b])
        /\ b \in Keys(neighbors[a]) => Get(neighbors[a], b) = Get(neighbors[b], a)

\* C18: no call removes a destination from the routing table of a node.
C18_NoEntryDeleted ==
    [][\A n \in Present :
          DOMAIN routingTable[n] \subseteq DOMAIN routingTable'[n]]_vars

\* C19: in a run without failures whose links, of non-negative cost, are all
\* set before the first round, every entry for a destination other than the
\* owner names a direct neighbor of the owner as next hop and has a cost that
\* is at least the shortest-path distance from the owner to the destination.
C19_NoUnderestimation ==
    (N >= 2 /\ hist.connects >= 1 /\ hist.fails = 0 /\ ~hist.lateBuild /\ NonNegative) =>
        LET D == TrueDist IN
        \A n \in Present : \A d \in DOMAIN routingTable[n] \ {n} :
            /\ Hop(n, d) \in Keys(neighbors[n])
            /\ Cost(n, d) >= D[<<n, d>>]
C19_Witness ==
    /\ N >= 3 /\ pc = "loop" /\ updated /\ hist.fails = 0 /\ NonNegative
    /\ \E n \in Present : \E d \in DOMAIN routingTable[n] \ {n} :
          /\ Hop(n, d) \in Keys(neighbors[n]) \ {d}
          /\ Cost(n, d) < Inf /\ Cost(n, d) >= TrueDist[<<n, d>>]

\* C20: on A-B=1, B-C=1, A-C=4, the failure of A-B leaves the routes A to C
\* and C to A at cost 2 via B, the rounds after it never change them, and the
\* loop after the failure ends converged with B to A at cost 3 via C.
C20_StaleRoutes ==
    /\ (GivenTopology /\ pc \in {"loop2", "end"}) =>
          /\ routingTable["A"]["C"] = <<2, "B">>
          /\ routingTable["C"]["A"] = <<2, "B">>
    /\ (GivenTopology /\ pc = "end") =>
          /\ report = "converged"
          /\ routingTable["B"]["A"] = <<3, "C">>
C20_Witness ==
    /\ GivenTopology /\ pc = "end" /\ report = "converged" /\ hist.fails = 1
    /\ Hop("A", "C") = "B" /\ LinkCost("A", "B") = Inf
    /\ Hop("B", "A") = "C" /\ Hop("C", "A") = "B"
====
